---- MODULE Spec2Model ----
(***************************************************************************)
(* The room / game state machine of the impostor word-game server.         *)
(*                                                                         *)
(* The repository holds three revisions of the same socket.io server:      *)
(*   src/index.js          rooms, roles stored on the server, voting,      *)
(*                         win conditions, immediate removal on disconnect *)
(*   src/unnamed/part_000  rooms, roles stored on the server, rejoin_room  *)
(*                         and the 45 s disconnect grace timer, no voting  *)
(*   src/unnamed/part_001  the oldest revision (a subset of index.js)      *)
(* The handlers the revisions share are textually identical and are        *)
(* modelled once.  Eight specifications run them:                          *)
(*   Spec         index.js from an empty store, two clients                *)
(*   SpecVote     index.js, the game handlers on a room of four            *)
(*   SpecGrace    part_000 from an empty store                             *)
(*   SpecMembers  the membership handlers of both revisions                *)
(*   SpecCap      index.js on a room one short of full                     *)
(*   SpecUnion    the handlers of index.js and part_000 on that room       *)
(*   SpecSeats    the roster handlers and start_game, two clients          *)
(*   SpecRoles    index.js and rejoin_room, two clients                    *)
(*                                                                         *)
(* Node runs every handler and every timer callback to completion on one   *)
(* thread, so each handler is one atomic action.  Text (names, room codes) *)
(* is a sequence of one-character strings; socket ids are numbers from 1;  *)
(* 0 is a falsy value (null, undefined, ""), a negative number a vote      *)
(* target that is an array-index string.  The socket.io transport and its  *)
(* groups are not modelled: a message records the socket or the group it   *)
(* is addressed to.                                                        *)
(***************************************************************************)
EXTENDS Integers, Sequences, FiniteSets, TLC

\* ------------------------------------------------------------------ bounds

NumSockets == 4
NumClients == 2
NumMembers == 3
NumCreators == 1
MaxRooms == 1
MaxK == 2
MaxTarget == 2
MaxDraw == 0
MaxResetTimers == 1

\* ------------------------------------------------------- program constants

CodeLength == 4
NameLimit == 50
MaxPlayers == 12

\* -------------------------------------------------------------------- text

Max2(a, b) == IF a >= b THEN a ELSE b

Min2(a, b) == IF a <= b THEN a ELSE b

\* String.prototype.toLowerCase, one character
LowerChar(c) ==
    CASE c = "A" -> "a" [] c = "B" -> "b" [] c = "C" -> "c" [] c = "D" -> "d"
      [] OTHER -> c

\* String.prototype.toUpperCase, one character
UpperChar(c) ==
    CASE c = "a" -> "A" [] c = "b" -> "B" [] c = "c" -> "C" [] c = "d" -> "D"
      [] OTHER -> c

toLowerCase(str) == [i \in 1..Len(str) |-> LowerChar(str[i])]

toUpperCase(str) == [i \in 1..Len(str) |-> UpperChar(str[i])]

RECURSIVE TrimStart(_)
TrimStart(str) ==
    IF str # <<>> /\ Head(str) = " " THEN TrimStart(Tail(str)) ELSE str

RECURSIVE TrimEnd(_)
TrimEnd(str) ==
    IF str # <<>> /\ str[Len(str)] = " "
    THEN TrimEnd(SubSeq(str, 1, Len(str) - 1))
    ELSE str

\* String.prototype.trim
trim(str) == TrimEnd(TrimStart(str))

\* str.substring(0, n)
substring0(str, n) == SubSeq(str, 1, Min2(Len(str), n))

IsAngle(c) == c \in {"<", ">"}

\* str.replace(/[<>]/g, "")
removeAngles(str) == SelectSeq(str, LAMBDA c : ~IsAngle(c))

\* sanitizeInput: "" for a falsy argument, else trim, cut to 50, drop < and >
sanitizeInput(str) ==
    IF str = <<>> THEN <<>>
    ELSE removeAngles(substring0(trim(str), NameLimit))

\* ------------------------------------------------------------------ inputs

Sockets == 1..NumSockets

\* the sockets that connect in Spec and SpecGrace
Clients == 1..NumClients

\* the codes generateUniqueRoomCode can draw in this model
CodePool == { [i \in 1..CodeLength |-> c] : c \in {"A", "B", "C"} }

FirstCodes(n) ==
    IF n >= 3 THEN CodePool
    ELSE IF n = 2 THEN { [i \in 1..CodeLength |-> c] : c \in {"A", "B"} }
    ELSE { [i \in 1..CodeLength |-> "A"] }

\* room codes a client may send to join_room and rejoin_room, which convert
\* them: exact, lower-cased, padded, empty
RawCodes ==
    FirstCodes(MaxRooms)
      \cup { <<"a", "a", "a", "a">>, <<"A", "A", "A", "A", " ">>, <<>> }

\* room codes a client may send to the handlers that look them up as they are
Codes == FirstCodes(MaxRooms) \cup { <<"a", "a", "a", "a">> }

Alphabet ==
    <<"A", "b", "c", "d", "e", "f", "g", "h", "i", "j", "k", "l", "m", "n", "o", "p">>

\* the name socket k plays under where each socket has one name
SeatName(k) == <<Alphabet[k]>>

\* player names the client on socket s may send (its display names)
RawNames(s) ==
    CASE s = 1 -> { <<"A">>, <<"<">> }
      [] s = 2 -> { <<"a">>, <<" ", "b", "<">>, <<>> }
      [] OTHER -> { SeatName(s) }

\* player names a client may send to rejoin_room
RejoinNames == { <<"A">>, <<"a">>, <<"b", " ">>, <<"c">> }

\* the sockets that connect in SpecGrace: the clients and one more socket, the
\* new connection of a client that reloads its page
GraceClients == 1..(NumClients + 1)

\* the sockets that connect in SpecMembers
Members == 1..NumMembers

\* the sockets whose client issues create_room
Creators == 1..NumCreators

\* targetId values a client may send that are array-index strings
IndexKeys == { -1 }

\* targetId of cast_vote in Spec: a socket id, 0 for a falsy value (null,
\* undefined, ""), or an array-index string
VoteTargets == (0..NumClients) \cup IndexKeys

\* wordData payloads: word, category and hint; "" and "null" are falsy
NoWordData == [present |-> FALSE, word |-> "null", category |-> "null", hint |-> "null"]

ValidWord == [present |-> TRUE, word |-> "w", category |-> "c", hint |-> "h"]

WordInputs ==
    { ValidWord,
      [present |-> TRUE, word |-> "", category |-> "c", hint |-> "h"],
      [present |-> TRUE, word |-> "w", category |-> "null", hint |-> "h"],
      NoWordData }

Falsy(x) == x \in {"", "null"}

KInputs == 0..MaxK

\* ------------------------------------------------------------------- state

VARIABLES
    rooms,               \* the rooms object: live rooms in insertion order
    sock,                \* per socket id: "open" or "closed" (the transport)
    roomCreationLimits,  \* keys of the rate-limit map
    disconnectTimers,    \* keys of disconnectTimers (part_000)
    orphanTimers,        \* pending resetRoomToLobby callbacks of deleted rooms
    proc,                \* "up", "crashed" (uncaught exception), "hung"
    emits                \* the messages the last handler sent, in order

vars == <<rooms, sock, roomCreationLimits, disconnectTimers, orphanTimers, proc, emits>>

NoRole ==
    [role |-> "null", word |-> "null", category |-> "null",
     impostorHint |-> "null", startingPlayer |-> <<>>]

\* { id, name }: isDead and roleData are undefined (falsy) on a new player
NewPlayer(id, name) ==
    [id |-> id, name |-> name, isDead |-> FALSE, roleData |-> NoRole]

NewRoom(code, id, name) ==
    [code |-> code, host |-> id, players |-> <<NewPlayer(id, name)>>,
     gameState |-> "lobby", votes |-> <<>>, resetTimers |-> 0]

BaseMsg ==
    [toSocket |-> 0, toRoom |-> <<>>, ev |-> "", text |-> "", players |-> <<>>,
     hostId |-> 0, roleData |-> NoRole, eliminatedId |-> 0, wasImpostor |-> FALSE,
     names |-> <<>>]

\* socket.emit(ev, ...) and io.to(socketId).emit(ev, ...)
ToSocket(s, ev) == [BaseMsg EXCEPT !.toSocket = s, !.ev = ev]

\* io.to(roomCode).emit(ev, ...)
ToRoom(code, ev) == [BaseMsg EXCEPT !.toRoom = code, !.ev = ev]

ErrorMessage(s, text) == [ToSocket(s, "error_message") EXCEPT !.text = text]

\* rooms[code]: the position of the room in the store, 0 when absent
RoomIndex(rs, code) ==
    IF \E i \in 1..Len(rs) : rs[i].code = code
    THEN CHOOSE i \in 1..Len(rs) : rs[i].code = code
    ELSE 0

\* players.findIndex(p => p.id === id), 0 for -1
FindById(players, id) ==
    IF \E i \in 1..Len(players) : players[i].id = id
    THEN CHOOSE i \in 1..Len(players) :
            /\ players[i].id = id
            /\ \A j \in 1..(i - 1) : players[j].id # id
    ELSE 0

\* players.findIndex(p => p.name === name), 0 for -1
FindByName(players, name) ==
    IF \E i \in 1..Len(players) : players[i].name = name
    THEN CHOOSE i \in 1..Len(players) :
            /\ players[i].name = name
            /\ \A j \in 1..(i - 1) : players[j].name # name
    ELSE 0

\* array.splice(i, 1)
Splice(seq, i) == SubSeq(seq, 1, i - 1) \o SubSeq(seq, i + 1, Len(seq))

Init ==
    /\ rooms = <<>>
    /\ sock = [s \in Sockets |-> "open"]
    /\ roomCreationLimits = {}
    /\ disconnectTimers = {}
    /\ orphanTimers = 0
    /\ proc = "up"
    /\ emits = <<>>

\* a handler runs for a connected socket while the process is alive
Live(s) == proc = "up" /\ sock[s] = "open"

\* ------------------------------------------------------------- create_room

CreateRoom(s, rawPlayerName, tooSoon) ==
    /\ Live(s)
    /\ UNCHANGED <<sock, disconnectTimers, orphanTimers, proc>>
    /\ IF s \in roomCreationLimits /\ tooSoon
       THEN /\ emits' = <<ErrorMessage(s, "Espera unos segundos antes de crear otra sala.")>>
            /\ UNCHANGED <<rooms, roomCreationLimits>>
       ELSE /\ roomCreationLimits' = roomCreationLimits \cup {s}
            /\ LET playerName == sanitizeInput(rawPlayerName) IN
               IF playerName = <<>>
               THEN /\ emits' = <<ErrorMessage(s, "Nombre invalido.")>>
                    /\ UNCHANGED rooms
               ELSE /\ Len(rooms) < MaxRooms
                    /\ \E roomCode \in FirstCodes(MaxRooms) :
                         /\ RoomIndex(rooms, roomCode) = 0
                         /\ rooms' = Append(rooms, NewRoom(roomCode, s, playerName))
                         /\ emits' = <<[ToSocket(s, "room_created") EXCEPT
                                          !.players = <<NewPlayer(s, playerName)>>]>>

\* --------------------------------------------------------------- join_room

\* (mutant) the comparison is case-sensitive
NameExistsExact(players, playerName) ==
    \E i \in 1..Len(players) : players[i].name = playerName

\* room.players.some(p => p.name.toLowerCase() === playerName.toLowerCase())
NameExists(players, playerName) ==
    \E i \in 1..Len(players) :
        toLowerCase(players[i].name) = toLowerCase(playerName)

\* (mutant) the room takes one player more than it should
RoomFullLate(players) == Len(players) > MaxPlayers

\* room.players.length >= 12
RoomFull(players) == Len(players) >= MaxPlayers

JoinAccepted(rs, rawCode, rawName) ==
    LET playerName == sanitizeInput(rawName)
        i == RoomIndex(rs, toUpperCase(rawCode))
    IN  /\ rawCode # <<>>
        /\ playerName # <<>>
        /\ i # 0
        /\ rs[i].gameState = "lobby"
        /\ ~RoomFull(rs[i].players)
        /\ ~NameExists(rs[i].players, playerName)

JoinError(rs, rawCode, rawName) ==
    LET playerName == sanitizeInput(rawName)
        i == RoomIndex(rs, toUpperCase(rawCode))
    IN  IF rawCode = <<>> \/ playerName = <<>> THEN "Datos invalidos."
        ELSE IF i = 0 THEN "Sala no encontrada."
        ELSE IF rs[i].gameState # "lobby" THEN "La partida ya empezo."
        ELSE IF RoomFull(rs[i].players) THEN "Sala llena."
        ELSE "Ese nombre ya esta en uso."

JoinRoom(s, rawCode, rawName) ==
    /\ Live(s)
    /\ UNCHANGED <<sock, roomCreationLimits, disconnectTimers, orphanTimers, proc>>
    /\ IF JoinAccepted(rooms, rawCode, rawName)
       THEN LET code == toUpperCase(rawCode)
                i == RoomIndex(rooms, code)
                players == Append(rooms[i].players, NewPlayer(s, sanitizeInput(rawName)))
            IN  /\ rooms' = [rooms EXCEPT ![i].players = players]
                /\ emits' = <<[ToSocket(s, "join_success") EXCEPT !.players = players],
                              [ToRoom(code, "update_players") EXCEPT !.players = players]>>
       ELSE /\ emits' = <<ErrorMessage(s, JoinError(rooms, rawCode, rawName))>>
            /\ UNCHANGED rooms

\* ------------------------------------------- handlePlayerExit / leave_room

\* (mutant) the host is not reassigned when the host leaves
ExitRoomsStaleHost(rs, i, id) ==
    LET k == FindById(rs[i].players, id)
        players == Splice(rs[i].players, k)
    IN  IF k = 0 THEN rs
        ELSE IF Len(players) = 0 THEN Splice(rs, i)
        ELSE [rs EXCEPT ![i].players = players]

\* (mutant) the host passes to the latest-joined player
ExitRoomsLastHost(rs, i, id) ==
    LET k == FindById(rs[i].players, id)
        wasHost == rs[i].host = id
        players == Splice(rs[i].players, k)
    IN  IF k = 0 THEN rs
        ELSE IF Len(players) = 0 THEN Splice(rs, i)
        ELSE [rs EXCEPT ![i].players = players,
                        ![i].host = IF wasHost THEN players[Len(players)].id ELSE @]

\* the store after the player with identity id leaves the room at position i
ExitRooms(rs, i, id) ==
    LET k == FindById(rs[i].players, id)
        wasHost == rs[i].host = id
        players == Splice(rs[i].players, k)
    IN  IF k = 0 THEN rs
        ELSE IF Len(players) = 0 THEN Splice(rs, i)
        ELSE [rs EXCEPT ![i].players = players,
                        ![i].host = IF wasHost THEN players[1].id ELSE @]

ExitEmits(rs, i, id) ==
    LET after == ExitRooms(rs, i, id) IN
    IF FindById(rs[i].players, id) = 0 \/ Len(rs[i].players) = 1 THEN <<>>
    ELSE <<[ToRoom(rs[i].code, "update_players") EXCEPT
              !.players = after[i].players, !.hostId = after[i].host]>>

\* pending resetRoomToLobby callbacks that lose their room to the deletion
ExitOrphans(rs, i, id) ==
    IF FindById(rs[i].players, id) # 0 /\ Len(rs[i].players) = 1
    THEN rs[i].resetTimers
    ELSE 0

handlePlayerExit(s, roomCode) ==
    LET i == RoomIndex(rooms, roomCode) IN
    IF i = 0
    THEN /\ emits' = <<>>
         /\ UNCHANGED <<rooms, orphanTimers>>
    ELSE /\ rooms' = ExitRooms(rooms, i, s)
         /\ emits' = ExitEmits(rooms, i, s)
         /\ orphanTimers' = orphanTimers + ExitOrphans(rooms, i, s)

LeaveRoom(s, roomCode) ==
    /\ Live(s)
    /\ handlePlayerExit(s, roomCode)
    /\ UNCHANGED <<sock, roomCreationLimits, disconnectTimers, proc>>

\* ---------------------------------------------------- disconnect (index.js)

\* for (const code in rooms): the first room, in insertion order, with the id
FirstRoomOf(rs, id) ==
    IF \E i \in 1..Len(rs) : FindById(rs[i].players, id) # 0
    THEN CHOOSE i \in 1..Len(rs) :
            /\ FindById(rs[i].players, id) # 0
            /\ \A j \in 1..(i - 1) : FindById(rs[j].players, id) = 0
    ELSE 0

\* the removal loop shared by the disconnect handler and the grace callback
RemoveFromFirstRoom(id) ==
    LET i == FirstRoomOf(rooms, id) IN
    IF i = 0
    THEN /\ emits' = <<>>
         /\ UNCHANGED <<rooms, orphanTimers>>
    ELSE /\ rooms' = ExitRooms(rooms, i, id)
         /\ emits' = ExitEmits(rooms, i, id)
         /\ orphanTimers' = orphanTimers + ExitOrphans(rooms, i, id)

Disconnect(s) ==
    /\ Live(s)
    /\ sock' = [sock EXCEPT ![s] = "closed"]
    /\ RemoveFromFirstRoom(s)
    /\ UNCHANGED <<roomCreationLimits, disconnectTimers, proc>>

\* -------------------------------------------------------------- start_game

\* Math.min(impostorCount, Math.max(1, playerIds.length - 1))
FinalImpostorCount(impostorCount, n) == Min2(impostorCount, Max2(1, n - 1))

PlayerIds(players) == { players[i].id : i \in 1..Len(players) }

\* the roleData object start_game stores on a player
RoleData(isImpostor, wordData, startingPlayerName) ==
    [role |-> IF isImpostor THEN "impostor" ELSE "citizen",
     word |-> IF isImpostor THEN "null" ELSE wordData.word,
     category |-> wordData.category,
     impostorHint |-> IF isImpostor THEN wordData.hint ELSE "null",
     startingPlayer |-> startingPlayerName]

AssignRoles(players, impostors, wordData, startingPlayerName) ==
    [i \in 1..Len(players) |->
        [players[i] EXCEPT
           !.roleData = RoleData(players[i].id \in impostors, wordData, startingPlayerName)]]

\* (mutant) start_game does not check who sent it
StartRejectedAnyone(rs, s, roomCode, wordData) ==
    LET i == RoomIndex(rs, roomCode) IN
    \/ i = 0
    \/ ~wordData.present
    \/ Falsy(wordData.word)
    \/ Falsy(wordData.category)

\* the early returns of start_game
StartRejected(rs, s, roomCode, wordData) ==
    LET i == RoomIndex(rs, roomCode) IN
    \/ i = 0
    \/ rs[i].host # s
    \/ ~wordData.present
    \/ Falsy(wordData.word)
    \/ Falsy(wordData.category)

\* the while loop draws until it holds finalImpostorCount distinct ids: any such
\* set can come out, and it never ends when the roster has fewer distinct ids;
\* draw is Math.floor(Math.random() * n) of the starting player, taken mod n
StartGame(s, roomCode, wordData, impostorCount, draw) ==
    /\ Live(s)
    /\ draw # 0 => ~StartRejected(rooms, s, roomCode, wordData)
    /\ UNCHANGED <<sock, roomCreationLimits, disconnectTimers, orphanTimers>>
    /\ IF StartRejected(rooms, s, roomCode, wordData)
       THEN /\ emits' = <<>>
            /\ UNCHANGED <<rooms, proc>>
       ELSE LET i == RoomIndex(rooms, roomCode)
                players == rooms[i].players
                playerIds == PlayerIds(players)
                finalImpostorCount == FinalImpostorCount(impostorCount, Len(players))
            IN  IF finalImpostorCount > Cardinality(playerIds)
                THEN /\ proc' = "hung"
                     /\ emits' = <<>>
                     /\ UNCHANGED rooms
                ELSE \E impostors \in SUBSET playerIds :
                       /\ Cardinality(impostors) = Max2(finalImpostorCount, 0)
                       /\ LET startingPlayerIndex == (draw % Len(players)) + 1
                              assigned == AssignRoles(players, impostors, wordData,
                                                      players[startingPlayerIndex].name)
                          IN  /\ rooms' = [rooms EXCEPT ![i].gameState = "playing",
                                                        ![i].players = assigned]
                              /\ emits' = [k \in 1..Len(assigned) |->
                                             [ToSocket(assigned[k].id, "game_started") EXCEPT
                                                !.roleData = assigned[k].roleData]]
                       /\ UNCHANGED proc

\* -------------------------------------------------------------- reset_game

ResetGame(s, roomCode) ==
    /\ Live(s)
    /\ UNCHANGED <<sock, roomCreationLimits, disconnectTimers, orphanTimers, proc>>
    /\ LET i == RoomIndex(rooms, roomCode) IN
       IF i # 0 /\ rooms[i].host = s
       THEN /\ rooms' = [rooms EXCEPT ![i].gameState = "lobby"]
            /\ emits' = <<[ToRoom(roomCode, "game_reset") EXCEPT !.players = rooms[i].players]>>
       ELSE /\ emits' = <<>>
            /\ UNCHANGED rooms

\* ------------------------------------------------------------ start_voting

\* alivePlayers.map(p => ({ id: p.id, name: p.name }))
Candidates(players) ==
    LET alive == SelectSeq(players, LAMBDA p : ~p.isDead) IN
    [k \in 1..Len(alive) |-> NewPlayer(alive[k].id, alive[k].name)]

StartVoting(s, roomCode) ==
    /\ Live(s)
    /\ UNCHANGED <<sock, roomCreationLimits, disconnectTimers, orphanTimers, proc>>
    /\ LET i == RoomIndex(rooms, roomCode) IN
       IF i # 0 /\ rooms[i].host = s /\ rooms[i].gameState = "playing"
       THEN /\ rooms' = [rooms EXCEPT ![i].gameState = "voting", ![i].votes = <<>>]
            /\ emits' = <<[ToRoom(roomCode, "voting_phase_started") EXCEPT
                             !.players = Candidates(rooms[i].players)]>>
       ELSE /\ emits' = <<>>
            /\ UNCHANGED rooms

\* ------------------------------------------- cast_vote, processVotingResult

\* room.votes is an object keyed by voter id; a sequence keeps its key order
VoteIndex(votes, voter) ==
    IF \E k \in 1..Len(votes) : votes[k].voter = voter
    THEN CHOOSE k \in 1..Len(votes) : votes[k].voter = voter
    ELSE 0

\* room.votes[socket.id] is truthy
HasVoted(votes, voter) ==
    VoteIndex(votes, voter) # 0 /\ votes[VoteIndex(votes, voter)].target # 0

\* room.votes[socket.id] = targetId
RecordVote(votes, voter, targetId) ==
    IF VoteIndex(votes, voter) # 0
    THEN [votes EXCEPT ![VoteIndex(votes, voter)].target = targetId]
    ELSE Append(votes, [voter |-> voter, target |-> targetId])

Alive(players) == SelectSeq(players, LAMBDA p : ~p.isDead)

\* tallies[targetId]
Tally(votes, t) == Cardinality({ k \in 1..Len(votes) : votes[k].target = t })

\* the position in votes at which target t becomes a key of tallies
FirstVoteFor(votes, t) == CHOOSE k \in 1..Len(votes) :
    /\ votes[k].target = t
    /\ \A j \in 1..(k - 1) : votes[j].target # t

\* a targetId that is a canonical array index ("7"): socket ids never are
IsIndexKey(t) == t < 0

\* the order in which Object.entries(tallies) visits two keys: array-index keys
\* first, in ascending order, then the other keys in the order of creation
KeyBefore(votes, t, u) ==
    IF IsIndexKey(t)
    THEN ~IsIndexKey(u) \/ (-t) <= (-u)
    ELSE ~IsIndexKey(u) /\ FirstVoteFor(votes, t) <= FirstVoteFor(votes, u)

\* the loop over Object.entries(tallies) keeps the first key with the top count
EliminatedId(votes) ==
    LET targets == { votes[k].target : k \in 1..Len(votes) }
        top == { t \in targets : \A u \in targets : Tally(votes, t) >= Tally(votes, u) }
    IN  CHOOSE t \in top : \A u \in top : KeyBefore(votes, t, u)

\* (mutant) the return to lobby clears the roles and keeps the phase
resetRoomToLobbyKeepsPhase(room) ==
    [room EXCEPT
       !.votes = <<>>,
       !.players = [k \in 1..Len(room.players) |->
                      [room.players[k] EXCEPT !.isDead = FALSE, !.roleData = NoRole]],
       !.resetTimers = @ + 1]

\* resetRoomToLobby, up to the setTimeout it schedules
resetRoomToLobby(room) ==
    [room EXCEPT
       !.gameState = "lobby",
       !.votes = <<>>,
       !.players = [k \in 1..Len(room.players) |->
                      [room.players[k] EXCEPT !.isDead = FALSE, !.roleData = NoRole]],
       !.resetTimers = @ + 1]

IsImpostor(p) == p.roleData.role = "impostor"

\* (mutant) the impostors need a majority
ImpostorsWinStrict(impostorsCount, citizensCount) == impostorsCount > citizensCount

\* impostorsCount >= citizensCount
ImpostorsWin(impostorsCount, citizensCount) == impostorsCount >= citizensCount

\* p.roleData.role throws a TypeError when roleData is null or undefined
RoleThrows(p) == p.roleData = NoRole

PlayerEliminated(players, victim) ==
    [k \in 1..Len(players) |->
        [ToSocket(players[k].id, "player_eliminated") EXCEPT
           !.eliminatedId = victim.id,
           !.names = <<victim.name>>,
           !.wasImpostor = (~RoleThrows(victim) /\ IsImpostor(victim))]]

GameOver(roomCode, winner, impostorNames) ==
    [ToRoom(roomCode, "game_over") EXCEPT !.text = winner, !.names = impostorNames]

NextRound(roomCode, startingPlayerName) ==
    [ToRoom(roomCode, "next_round") EXCEPT !.names = <<startingPlayerName>>]

Names(players) == [k \in 1..Len(players) |-> players[k].name]

\* processVotingResult on a room: the room afterwards, what it emitted, and
\* whether it threw; pick is the survivor Math.random selects for next_round
processVotingResult(room, pick) ==
    LET victimIndex == FindById(room.players, EliminatedId(room.votes))
        players == [room.players EXCEPT ![victimIndex].isDead = TRUE]
        victim == players[victimIndex]
        eliminated == PlayerEliminated(players, victim)
        survivors == Alive(players)
        remainingImpostors == SelectSeq(survivors, IsImpostor)
        impostorsCount == Len(remainingImpostors)
        citizensCount == Len(survivors) - impostorsCount
        marked == [room EXCEPT !.players = players]
    IN  IF victimIndex # 0
        THEN IF \E k \in 1..Len(survivors) : RoleThrows(survivors[k])
             THEN [room |-> marked, emits |-> eliminated, threw |-> TRUE]
             ELSE IF impostorsCount = 0
             THEN [room |-> resetRoomToLobby(marked),
                   emits |-> Append(eliminated,
                                    GameOver(room.code, "citizen", <<victim.name>>)),
                   threw |-> FALSE]
             ELSE IF ImpostorsWin(impostorsCount, citizensCount)
             THEN IF \E k \in 1..Len(players) : RoleThrows(players[k])
                  THEN [room |-> marked, emits |-> eliminated, threw |-> TRUE]
                  ELSE [room |-> resetRoomToLobby(marked),
                        emits |-> Append(eliminated,
                                         GameOver(room.code, "impostor",
                                                  Names(SelectSeq(players, IsImpostor)))),
                        threw |-> FALSE]
             ELSE [room |-> [marked EXCEPT !.gameState = "playing", !.votes = <<>>],
                   emits |-> Append(eliminated,
                                    NextRound(room.code,
                                              survivors[(pick % Len(survivors)) + 1].name)),
                   threw |-> FALSE]
        ELSE IF Len(Alive(room.players)) = 0
             THEN [room |-> [room EXCEPT !.gameState = "playing", !.votes = <<>>],
                   emits |-> <<>>, threw |-> TRUE]
             ELSE [room |-> [room EXCEPT !.gameState = "playing", !.votes = <<>>],
                   emits |-> <<NextRound(room.code, Alive(room.players)[1].name)>>,
                   threw |-> FALSE]

\* the early returns of cast_vote
VoteRejected(rs, s, roomCode) ==
    LET i == RoomIndex(rs, roomCode)
        k == FindById(rs[i].players, s)
    IN  \/ i = 0
        \/ rs[i].gameState # "voting"
        \/ k = 0
        \/ rs[i].players[k].isDead
        \/ HasVoted(rs[i].votes, s)

\* if (votesCount >= aliveCount) processVotingResult(roomCode)
VotingClosed(room) == Len(room.votes) >= Len(Alive(room.players))

CastVote(s, roomCode, targetId, pick) ==
    /\ Live(s)
    /\ pick # 0 => ~VoteRejected(rooms, s, roomCode)
    /\ UNCHANGED <<sock, roomCreationLimits, disconnectTimers, orphanTimers>>
    /\ IF VoteRejected(rooms, s, roomCode)
       THEN /\ emits' = <<>>
            /\ UNCHANGED <<rooms, proc>>
       ELSE LET i == RoomIndex(rooms, roomCode)
                voted == [rooms[i] EXCEPT !.votes = RecordVote(@, s, targetId)]
                result == processVotingResult(voted, pick)
            IN  IF VotingClosed(voted)
                THEN /\ result.room.resetTimers + orphanTimers <= MaxResetTimers
                     /\ rooms' = [rooms EXCEPT ![i] = result.room]
                     /\ emits' = result.emits
                     /\ proc' = IF result.threw THEN "crashed" ELSE proc
                ELSE /\ rooms' = [rooms EXCEPT ![i] = voted]
                     /\ emits' = <<>>
                     /\ UNCHANGED proc

\* ------------------------------- the setTimeout callback of resetRoomToLobby

GameReset(players) ==
    <<[ToSocket(players[1].id, "game_reset") EXCEPT !.players = players]>>
      \o [k \in 1..Len(players) |->
            [ToSocket(players[k].id, "game_reset") EXCEPT !.players = players]]

\* the callback of a room that is still in the store
ResetTimerFire(i) ==
    /\ proc = "up"
    /\ i \in 1..Len(rooms)
    /\ rooms[i].resetTimers > 0
    /\ rooms' = [rooms EXCEPT ![i].resetTimers = @ - 1]
    /\ emits' = GameReset(rooms[i].players)
    /\ UNCHANGED <<sock, roomCreationLimits, disconnectTimers, orphanTimers, proc>>

\* the callback of a deleted room: room.players is empty, players[0].id throws
OrphanTimerFire ==
    /\ proc = "up"
    /\ orphanTimers > 0
    /\ orphanTimers' = orphanTimers - 1
    /\ proc' = "crashed"
    /\ emits' = <<>>
    /\ UNCHANGED <<rooms, sock, roomCreationLimits, disconnectTimers>>

Next ==
    \/ \E s \in Creators : \E n \in RawNames(s), b \in BOOLEAN : CreateRoom(s, n, b)
    \/ \E s \in Clients : \E c \in RawCodes, n \in RawNames(s) : JoinRoom(s, c, n)
    \/ \E s \in Clients, c \in Codes : LeaveRoom(s, c)
    \/ \E s \in Clients : Disconnect(s)
    \/ \E s \in Clients, c \in Codes, w \in WordInputs, k \in KInputs, r \in 0..(NumClients - 1) :
          StartGame(s, c, w, k, r)
    \/ \E s \in Clients, c \in Codes : ResetGame(s, c)
    \/ \E s \in Clients, c \in Codes : StartVoting(s, c)
    \/ \E s \in Clients, c \in Codes, t \in VoteTargets, r \in 0..(NumClients - 1) :
          CastVote(s, c, t, r)
    \/ \E i \in 1..MaxRooms : ResetTimerFire(i)
    \/ OrphanTimerFire

Spec == Init /\ [][Next]_vars

\* ------------------------------------------------- index.js, a game of four

\* the store after create_room by socket 1 and join_room by the others
FullRoom(n) ==
    [code |-> [i \in 1..CodeLength |-> "A"],
     host |-> 1,
     players |-> [k \in 1..n |-> NewPlayer(k, SeatName(k))],
     gameState |-> "lobby", votes |-> <<>>, resetTimers |-> 0]

InitVote ==
    /\ rooms = <<FullRoom(NumSockets)>>
    /\ sock = [s \in Sockets |-> "open"]
    /\ roomCreationLimits = {1}
    /\ disconnectTimers = {}
    /\ orphanTimers = 0
    /\ proc = "up"
    /\ emits = <<>>

NextVote ==
    \/ \E s \in Sockets, c \in Codes, w \in WordInputs, k \in KInputs, r \in 0..MaxDraw :
          StartGame(s, c, w, k, r)
    \/ \E s \in Sockets, c \in Codes : ResetGame(s, c)
    \/ \E s \in Sockets, c \in Codes : StartVoting(s, c)
    \/ \E s \in Sockets, c \in Codes, t \in 1..MaxTarget, r \in 0..MaxDraw :
          CastVote(s, c, t, r)
    \/ \E i \in 1..MaxRooms : ResetTimerFire(i)

SpecVote == InitVote /\ [][NextVote]_vars

\* ------------------------------------ part_000: rejoin_room and the grace timer

\* the early returns of rejoin_room: "" when the rejoin goes through
RejoinError(rs, rawCode, rawName) ==
    LET i == RoomIndex(rs, sanitizeInput(rawCode)) IN
    IF i = 0 THEN "La sala ya no existe."
    ELSE IF FindByName(rs[i].players, sanitizeInput(rawName)) = 0
         THEN "No se pudo recuperar la sesion."
         ELSE ""

\* (mutant) the host id is not rewritten to the new connection
RejoinHostStale(host, oldSocketId, s) == host

\* const isHost = (room.host === oldSocketId); if (isHost) room.host = socket.id
RejoinHost(host, oldSocketId, s) == IF host = oldSocketId THEN s ELSE host

\* clearTimeout(disconnectTimers[oldSocketId]); delete disconnectTimers[oldSocketId]
CancelTimer(timers, oldSocketId) == timers \ {oldSocketId}

RejoinRoom(s, rawCode, rawName) ==
    /\ Live(s)
    /\ UNCHANGED <<sock, roomCreationLimits, orphanTimers, proc>>
    /\ IF RejoinError(rooms, rawCode, rawName) # ""
       THEN /\ emits' = <<ErrorMessage(s, RejoinError(rooms, rawCode, rawName))>>
            /\ UNCHANGED <<rooms, disconnectTimers>>
       ELSE LET code == sanitizeInput(rawCode)
                i == RoomIndex(rooms, code)
                playerIndex == FindByName(rooms[i].players, sanitizeInput(rawName))
                oldSocketId == rooms[i].players[playerIndex].id
                players == [rooms[i].players EXCEPT ![playerIndex].id = s]
                host == RejoinHost(rooms[i].host, oldSocketId, s)
            IN  /\ disconnectTimers' = CancelTimer(disconnectTimers, oldSocketId)
                /\ rooms' = [rooms EXCEPT ![i].players = players, ![i].host = host]
                /\ emits' =
                     <<[ToRoom(code, "update_players") EXCEPT
                          !.players = players, !.hostId = host],
                       IF rooms[i].gameState = "playing"
                       THEN [ToSocket(s, "game_started") EXCEPT
                               !.roleData = players[playerIndex].roleData]
                       ELSE [ToSocket(s, "join_success") EXCEPT !.players = players]>>

\* disconnect in part_000: only the 45 s timer is started
DisconnectGrace(s) ==
    /\ Live(s)
    /\ sock' = [sock EXCEPT ![s] = "closed"]
    /\ disconnectTimers' = disconnectTimers \cup {s}
    /\ emits' = <<>>
    /\ UNCHANGED <<rooms, roomCreationLimits, orphanTimers, proc>>

\* the timer callback, with the socket id it closed over
GraceTimerFire(s) ==
    /\ proc = "up"
    /\ s \in disconnectTimers
    /\ RemoveFromFirstRoom(s)
    /\ disconnectTimers' = disconnectTimers \ {s}
    /\ UNCHANGED <<sock, roomCreationLimits, proc>>

NextGrace ==
    \/ \E s \in Creators : \E n \in RawNames(s), b \in BOOLEAN : CreateRoom(s, n, b)
    \/ \E s \in Clients : \E c \in RawCodes, n \in RawNames(s) : JoinRoom(s, c, n)
    \/ \E s \in GraceClients \ Clients, c \in RawCodes, n \in RejoinNames : RejoinRoom(s, c, n)
    \/ \E s \in GraceClients, c \in Codes : LeaveRoom(s, c)
    \/ \E s \in GraceClients, c \in Codes, w \in WordInputs, k \in KInputs, r \in 0..MaxDraw :
          StartGame(s, c, w, k, r)
    \/ \E s \in GraceClients, c \in Codes : ResetGame(s, c)
    \/ \E s \in GraceClients : DisconnectGrace(s)
    \/ \E s \in GraceClients : GraceTimerFire(s)

SpecGrace == Init /\ [][NextGrace]_vars

\* --------------------------------------- the membership handlers, both revisions

\* create_room, join_room, rejoin_room, leave_room, the two disconnect handlers
\* and the grace callback are the only code that writes a room's code or host
\* or a player's id or name, and the only code that adds or removes a player or
\* a room.  Of the game state they read gameState alone (join_room refuses
\* outside the lobby; rejoin_room picks its reply by it), so run without the
\* game handlers they produce every roster and host the full server can.
NextMembers ==
    \/ \E s \in Creators : \E n \in RawNames(s), b \in BOOLEAN : CreateRoom(s, n, b)
    \/ \E s \in Members : \E c \in Codes, n \in RawNames(s) : JoinRoom(s, c, n)
    \/ \E s \in Members, c \in FirstCodes(MaxRooms), n \in RejoinNames : RejoinRoom(s, c, n)
    \/ \E s \in Members, c \in FirstCodes(MaxRooms) : LeaveRoom(s, c)
    \/ \E s \in Members : Disconnect(s)
    \/ \E s \in Members : DisconnectGrace(s)
    \/ \E s \in Members : GraceTimerFire(s)

SpecMembers == Init /\ [][NextMembers]_vars

\* ------------------------------------------- index.js, a room about to fill

\* the sockets of SpecCap: the players of the room and two more clients
CapSockets == 1..(MaxPlayers + 1)

\* the clients that act in SpecCap: the host and the two that are not in yet
CapClients == {1, MaxPlayers, MaxPlayers + 1}

\* names the two late clients send: their own, and one that is taken
CapNames(s) == { SeatName(s), <<"a">> }

\* create_room by socket 1, then join_room by sockets 2 to 11
InitCap ==
    /\ rooms = <<FullRoom(MaxPlayers - 1)>>
    /\ sock = [s \in CapSockets |-> "open"]
    /\ roomCreationLimits = {1}
    /\ disconnectTimers = {}
    /\ orphanTimers = 0
    /\ proc = "up"
    /\ emits = <<>>

NextCap ==
    \/ \E s \in CapClients : \E c \in Codes, n \in CapNames(s) : JoinRoom(s, c, n)
    \/ \E s \in CapClients, c \in FirstCodes(MaxRooms) : LeaveRoom(s, c)
    \/ \E s \in CapClients, c \in FirstCodes(MaxRooms), k \in 0..1 :
          StartGame(s, c, ValidWord, k, 0)
    \/ \E s \in CapClients, c \in FirstCodes(MaxRooms) : ResetGame(s, c)
    \/ \E s \in CapClients, c \in FirstCodes(MaxRooms) : StartVoting(s, c)

SpecCap == InitCap /\ [][NextCap]_vars

\* --------------------------- the handlers of both revisions on a filling room

\* the clients that act in SpecUnion: the host and one that is not in yet
UnionClients == {1, MaxPlayers + 1}

\* names they send to join_room: their own, and one that is taken
UnionNames(s) == { SeatName(s), <<"B">> }

\* names they send to rejoin_room: one that is seated and one that is not
UnionRejoinNames == { SeatName(2), <<"z">> }

\* index.js and part_000 differ in the handlers they have, not in the ones
\* they share: with all of them enabled every step of either revision is a
\* step of NextUnion, so what no step of NextUnion does neither revision does
NextUnion ==
    \/ \E s \in UnionClients : \E c \in RawCodes, n \in UnionNames(s) : JoinRoom(s, c, n)
    \/ \E s \in UnionClients, c \in RawCodes, n \in UnionRejoinNames : RejoinRoom(s, c, n)
    \/ \E s \in UnionClients, c \in FirstCodes(MaxRooms) : LeaveRoom(s, c)
    \/ \E s \in UnionClients, c \in FirstCodes(MaxRooms) : StartGame(s, c, ValidWord, 0, 0)
    \/ \E s \in UnionClients, c \in FirstCodes(MaxRooms) : ResetGame(s, c)
    \/ \E s \in UnionClients, c \in FirstCodes(MaxRooms) : StartVoting(s, c)
    \/ \E s \in UnionClients : Disconnect(s)
    \/ \E s \in UnionClients : DisconnectGrace(s)
    \/ \E s \in UnionClients : GraceTimerFire(s)

SpecUnion == InitCap /\ [][NextUnion]_vars

\* ------------------------------- rosters and the impostor selection loop

\* names a client sends to join_room in SpecSeats: its own and one more
SeatsNames(s) == { SeatName(s), <<"x">> }

\* names a client sends to rejoin_room in SpecSeats
SeatsRejoinNames == { SeatName(1), <<"x">> }

\* the handlers that build a roster, and start_game with every requested count
NextSeats ==
    \/ \E s \in Creators, b \in BOOLEAN : CreateRoom(s, SeatName(s), b)
    \/ \E s \in Clients : \E c \in FirstCodes(MaxRooms), n \in SeatsNames(s) : JoinRoom(s, c, n)
    \/ \E s \in Clients, c \in FirstCodes(MaxRooms), n \in SeatsRejoinNames : RejoinRoom(s, c, n)
    \/ \E s \in Clients, c \in FirstCodes(MaxRooms) : LeaveRoom(s, c)
    \/ \E s \in Clients, c \in FirstCodes(MaxRooms), k \in KInputs :
          StartGame(s, c, ValidWord, k, 0)
    \/ \E s \in Clients, c \in FirstCodes(MaxRooms) : ResetGame(s, c)

SpecSeats == Init /\ [][NextSeats]_vars

\* ---------------------------------- a whole game with rejoin_room, two clients

\* names the clients send to rejoin_room in SpecRoles: the two seats' names
RolesRejoinNames == { SeatName(s) : s \in Clients }

\* the handlers of index.js from an empty store, and rejoin_room of part_000
\* by the same two clients: the operations that write gameState or roleData or
\* add a player, together; each client joins under one name and start_game
\* gets a valid wordData
NextRoles ==
    \/ \E s \in Creators, b \in BOOLEAN : CreateRoom(s, SeatName(s), b)
    \/ \E s \in Clients, c \in FirstCodes(MaxRooms) : JoinRoom(s, c, SeatName(s))
    \/ \E s \in Clients, c \in FirstCodes(MaxRooms), n \in RolesRejoinNames : RejoinRoom(s, c, n)
    \/ \E s \in Clients, c \in FirstCodes(MaxRooms) : LeaveRoom(s, c)
    \/ \E s \in Clients : Disconnect(s)
    \/ \E s \in Clients, c \in FirstCodes(MaxRooms), k \in KInputs, r \in 0..(NumClients - 1) :
          StartGame(s, c, ValidWord, k, r)
    \/ \E s \in Clients, c \in FirstCodes(MaxRooms) : ResetGame(s, c)
    \/ \E s \in Clients, c \in FirstCodes(MaxRooms) : StartVoting(s, c)
    \/ \E s \in Clients, c \in FirstCodes(MaxRooms), t \in 1..MaxTarget, r \in 0..(NumClients - 1) :
          CastVote(s, c, t, r)
    \/ \E i \in 1..MaxRooms : ResetTimerFire(i)
    \/ OrphanTimerFire

SpecRoles == Init /\ [][NextRoles]_vars

\* ------------------------------------------------------------- properties

\* C1: every room in the store has at least one player, and its host is the
\* id of a player of its roster (SpecMembers)
C1_RoomsHaveHost ==
    \A i \in 1..Len(rooms) :
        /\ Len(rooms[i].players) >= 1
        /\ \E k \in 1..Len(rooms[i].players) : rooms[i].players[k].id = rooms[i].host

\* a room whose host left or reconnected: its host is no longer its creator
W_C1_HostChanged ==
    \E i \in 1..Len(rooms) :
        /\ rooms[i].host \notin Creators
        /\ Len(rooms[i].players) >= 2

\* C2: a player's roleData is carried only by messages addressed to that
\* player's own socket, never by a message to the room or to another socket
\* (Spec)
C2_RoleDataPrivate ==
    \A k \in 1..Len(emits) :
        /\ emits[k].roleData # NoRole =>
             /\ emits[k].toRoom = <<>>
             /\ \E i \in 1..Len(rooms) : \E j \in 1..Len(rooms[i].players) :
                   /\ rooms[i].players[j].id = emits[k].toSocket
                   /\ rooms[i].players[j].roleData = emits[k].roleData
        /\ \A j \in 1..Len(emits[k].players) :
             emits[k].players[j].roleData # NoRole =>
                /\ emits[k].toRoom = <<>>
                /\ emits[k].toSocket = emits[k].players[j].id

\* C3: a start_game that goes through on N players with requested count K
\* leaves exactly max(1, min(K, N - 1)) impostors, on distinct players and
\* never on all of them, and no player holds both the word and the hint (Spec)
C3_ImpostorCount ==
    [][\A s \in Clients, c \in Codes, w \in WordInputs, k \in KInputs,
          r \in 0..(NumClients - 1) :
          (~StartRejected(rooms, s, c, w) /\ StartGame(s, c, w, k, r)) =>
             LET ps == rooms'[RoomIndex(rooms', c)].players
                 n == Len(ps)
                 imps == { j \in 1..n : ps[j].roleData.role = "impostor" }
             IN  /\ Cardinality(imps) = Max2(1, Min2(k, n - 1))
                 /\ Cardinality({ ps[j].id : j \in imps }) = Cardinality(imps)
                 /\ Cardinality(imps) < n
                 /\ \A j \in 1..n :
                       ~(ps[j].roleData.word # "null" /\ ps[j].roleData.impostorHint # "null")
      ]_vars

\* C4: start_game changes nothing and starts no game unless the sender is the
\* host, the room is in the lobby and wordData has a word and a category (Spec)
C4_StartGuards ==
    [][\A s \in Clients, c \in Codes, w \in WordInputs, k \in KInputs,
          r \in 0..(NumClients - 1) :
          LET i == RoomIndex(rooms, c) IN
          (/\ StartGame(s, c, w, k, r)
           /\ \/ i = 0
              \/ rooms[i].host # s
              \/ rooms[i].gameState # "lobby"
              \/ ~w.present \/ Falsy(w.word) \/ Falsy(w.category))
            => (rooms' = rooms /\ emits' = <<>>)
      ]_vars

\* C5: whatever leaves and disconnects interleave with the votes, the round is
\* resolved as soon as every living player has a recorded vote: no room stays
\* in the voting phase with as many recorded votes as living players (Spec)
C5_ResolvedWhenAllVoted ==
    \A i \in 1..Len(rooms) :
        rooms[i].gameState = "voting" =>
            Len(rooms[i].votes) < Len(Alive(rooms[i].players))

\* C6: a resolution that eliminates a victim ends the game for the citizens
\* when no living impostor is left, else for the impostors when the living
\* impostors are at least as many as the living citizens, and only otherwise
\* goes on to the next round; a win sends the room back to the lobby (SpecVote)
C6_WinOrder ==
    [][(\E m \in 1..Len(emits') : emits'[m].ev = "player_eliminated") =>
         LET i == CHOOSE i \in 1..Len(rooms) : rooms[i].gameState = "voting" /\ rooms'[i] # rooms[i]
             before == rooms[i].players
             v == FindById(before, emits'[1].eliminatedId)
             living == { j \in 1..Len(before) : j # v /\ ~before[j].isDead }
             imp == Cardinality({ j \in living : before[j].roleData.role = "impostor" })
             cit == Cardinality(living) - imp
             over(winner) == \E m \in 1..Len(emits') :
                                emits'[m].ev = "game_over" /\ emits'[m].text = winner
             anyOver == \E m \in 1..Len(emits') : emits'[m].ev = "game_over"
             next == \E m \in 1..Len(emits') : emits'[m].ev = "next_round"
         IN  IF imp = 0
             THEN over("citizen") /\ ~over("impostor") /\ ~next
                    /\ rooms'[i].gameState = "lobby"
             ELSE IF imp >= cit
             THEN over("impostor") /\ ~over("citizen") /\ ~next
                    /\ rooms'[i].gameState = "lobby"
             ELSE next /\ ~anyOver /\ rooms'[i].gameState = "playing"
      ]_vars

\* a resolution went on to the next round with an impostor among three living
W_C6_NextRound ==
    /\ \E m \in 1..Len(emits) : emits[m].ev = "player_eliminated"
    /\ \E m \in 1..Len(emits) : emits[m].ev = "next_round"
    /\ \E i \in 1..Len(rooms) :
          /\ rooms[i].gameState = "playing"
          /\ Len(Alive(rooms[i].players)) = 3
          /\ \E j \in 1..Len(rooms[i].players) :
                ~rooms[i].players[j].isDead /\ IsImpostor(rooms[i].players[j])

\* C7: a join_room that succeeds makes the roster one longer, puts the joiner
\* at its end behind the players already there, and leaves the joiner's id in
\* the roster exactly once (Spec)
C7_JoinAppendsOnce ==
    [][\A s \in Clients : \A c \in RawCodes, n \in RawNames(s) :
          (JoinRoom(s, c, n) /\ emits'[1].ev = "join_success") =>
             LET i == RoomIndex(rooms, toUpperCase(c))
                 before == rooms[i].players
                 after == rooms'[i].players
             IN  /\ Len(after) = Len(before) + 1
                 /\ SubSeq(after, 1, Len(before)) = before
                 /\ after[Len(after)].id = s
                 /\ Cardinality({ j \in 1..Len(after) : after[j].id = s }) = 1
      ]_vars

\* C8 as stated: no roster holds two names equal ignoring case, and a
\* join_room whose name equals a player's name ignoring case is always
\* rejected with the name-taken error (SpecGrace).  join_room answers its
\* sender first, so only the steps whose first message goes to s are looked at.
C8_ClashAlwaysNameTaken ==
    /\ [](\A i \in 1..Len(rooms) : \A j, k \in 1..Len(rooms[i].players) :
            toLowerCase(rooms[i].players[j].name) = toLowerCase(rooms[i].players[k].name)
               => j = k)
    /\ [][\A s \in Clients :
            (emits' # <<>> /\ emits'[1].toSocket = s) =>
            \A c \in RawCodes, n \in RawNames(s) :
            LET i == RoomIndex(rooms, toUpperCase(c)) IN
            (/\ i # 0
             /\ sanitizeInput(n) # <<>>
             /\ \E j \in 1..Len(rooms[i].players) :
                   toLowerCase(rooms[i].players[j].name) = toLowerCase(sanitizeInput(n))
             /\ JoinRoom(s, c, n))
              => /\ rooms' = rooms
                 /\ emits' = <<ErrorMessage(s, "Ese nombre ya esta en uso.")>>
         ]_vars

\* C8, amended: no roster holds two names equal ignoring case; a join_room
\* whose name equals a player's name ignoring case is always rejected with an
\* error and changes nothing, and the error is the name-taken one when the
\* room is in the lobby and not full (SpecGrace)
C8_ClashAlwaysRejected ==
    /\ [](\A i \in 1..Len(rooms) : \A j, k \in 1..Len(rooms[i].players) :
            toLowerCase(rooms[i].players[j].name) = toLowerCase(rooms[i].players[k].name)
               => j = k)
    /\ [][\A s \in Clients :
            (emits' # <<>> /\ emits'[1].toSocket = s) =>
            \A c \in RawCodes, n \in RawNames(s) :
            LET i == RoomIndex(rooms, toUpperCase(c)) IN
            (/\ i # 0
             /\ sanitizeInput(n) # <<>>
             /\ \E j \in 1..Len(rooms[i].players) :
                   toLowerCase(rooms[i].players[j].name) = toLowerCase(sanitizeInput(n))
             /\ JoinRoom(s, c, n))
              => /\ rooms' = rooms
                 /\ Len(emits') = 1
                 /\ emits'[1].ev = "error_message"
                 /\ emits'[1].toSocket = s
                 /\ (rooms[i].gameState = "lobby" /\ Len(rooms[i].players) < MaxPlayers)
                       => emits'[1].text = "Ese nombre ya esta en uso."
         ]_vars

\* a join under a name that differs only in case from the creator's was turned
\* down and the roster still holds the creator alone
W_C8_ClashTurnedDown ==
    /\ emits = <<ErrorMessage(2, "Ese nombre ya esta en uso.")>>
    /\ \E i \in 1..Len(rooms) :
          /\ Len(rooms[i].players) = 1
          /\ rooms[i].players[1].name = <<"A">>

\* C9: no roster ever holds more than 12 players, and a roster never grows
\* while its room is in the playing or the voting phase (SpecCap)
C9_RosterBounded ==
    /\ [](\A i \in 1..Len(rooms) : Len(rooms[i].players) <= MaxPlayers)
    /\ [][\A i \in 1..Len(rooms) : \A j \in 1..Len(rooms') :
            (rooms[i].code = rooms'[j].code /\ rooms[i].gameState # "lobby")
               => Len(rooms'[j].players) <= Len(rooms[i].players)
         ]_vars

\* the room is full and the join of one more client was turned down for it
W_C9_FullRoomRefuses ==
    /\ \E i \in 1..Len(rooms) : Len(rooms[i].players) = MaxPlayers
    /\ Len(emits) = 1
    /\ emits[1].ev = "error_message"
    /\ emits[1].text = "Sala llena."

\* C10: a removal takes one player out and keeps the others in their order;
\* when the host was removed the host becomes the first remaining player, and
\* otherwise the host does not change (SpecMembers)
C10_HostSuccession ==
    [][\A i \in 1..Len(rooms) : \A j \in 1..Len(rooms') :
          (/\ rooms[i].code = rooms'[j].code
           /\ Len(rooms'[j].players) < Len(rooms[i].players))
            => \E k \in 1..Len(rooms[i].players) :
                  /\ rooms'[j].players = Splice(rooms[i].players, k)
                  /\ rooms'[j].host = IF rooms[i].host = rooms[i].players[k].id
                                      THEN rooms'[j].players[1].id
                                      ELSE rooms[i].host
      ]_vars

\* a removal from a room of three left two players, and the room's host, the
\* first of them, is not the creator
W_C10_HostPassedOn ==
    /\ Len(emits) = 1
    /\ emits[1].ev = "update_players"
    /\ Len(emits[1].players) = 2
    /\ emits[1].hostId = emits[1].players[1].id
    /\ emits[1].hostId \notin Creators
    /\ emits[1].players[2].id \notin Creators

\* C11: a rejoin_room under a disconnected player's name, processed while the
\* grace timer of the old connection is pending, keeps the roster's size,
\* order and names, the phase and every stored roleData; it rewrites only that
\* player's id, and the host when the old connection was the host; in the
\* playing phase the new connection gets exactly the stored roleData
\* (SpecGrace).  rejoin_room broadcasts first and then answers its sender.
C11_RejoinKeepsSeat ==
    [][\A s \in GraceClients :
         (Len(emits') = 2 /\ emits'[2].toSocket = s) =>
         \A c \in RawCodes, n \in RejoinNames :
            LET i == RoomIndex(rooms, sanitizeInput(c))
                k == IF i = 0 THEN 0 ELSE FindByName(rooms[i].players, sanitizeInput(n))
            IN  (/\ k # 0
                 /\ rooms[i].players[k].id \in disconnectTimers
                 /\ RejoinRoom(s, c, n))
                  => LET before == rooms[i]
                         after == rooms'[i]
                         old == before.players[k].id
                     IN  /\ Len(rooms') = Len(rooms)
                         /\ \A j \in 1..Len(rooms) : j # i => rooms'[j] = rooms[j]
                         /\ after.code = before.code
                         /\ after.gameState = before.gameState
                         /\ Len(after.players) = Len(before.players)
                         /\ \A j \in 1..Len(before.players) :
                               /\ after.players[j].name = before.players[j].name
                               /\ after.players[j].roleData = before.players[j].roleData
                               /\ after.players[j].isDead = before.players[j].isDead
                               /\ after.players[j].id =
                                    IF j = k THEN s ELSE before.players[j].id
                         /\ after.host = IF before.host = old THEN s ELSE before.host
                         /\ before.gameState = "playing" =>
                               /\ emits'[2].ev = "game_started"
                               /\ emits'[2].roleData = before.players[k].roleData
                               /\ emits'[2].roleData # NoRole
                               /\ emits'[1].toRoom # <<>>
                               /\ emits'[1].roleData = NoRole
      ]_vars

\* a new connection took over the host's seat during a game: the old
\* connection is closed, its timer is gone, and the role went to the new one
W_C11_RejoinedInGame ==
    /\ Len(emits) = 2
    /\ emits[2].ev = "game_started"
    /\ emits[2].roleData # NoRole
    /\ \E i \in 1..Len(rooms) :
          /\ rooms[i].gameState = "playing"
          /\ rooms[i].host = emits[2].toSocket
          /\ rooms[i].host \notin Creators
          /\ \E k \in 1..Len(rooms[i].players) :
                /\ rooms[i].players[k].id = rooms[i].host
                /\ rooms[i].players[k].roleData = emits[2].roleData
    /\ \E s \in Creators : sock[s] = "closed" /\ s \notin disconnectTimers

\* C12: when the grace timer of a closed connection fires and a player still
\* sits under that connection's id (nobody rejoined for it), the player is
\* removed exactly once: its roster is one shorter or its room is deleted, the
\* timer entry is gone, no seat keeps the id, and a rejoin_room under the
\* player's name is then rejected (SpecMembers)
C12_ExpiryRemovesPlayer ==
    [][\A s \in Members :
         (s \in disconnectTimers /\ GraceTimerFire(s)) =>
            /\ s \notin disconnectTimers'
            /\ \A i \in 1..Len(rooms) : \A k \in 1..Len(rooms[i].players) :
                  rooms[i].players[k].id = s =>
                     LET j == RoomIndex(rooms', rooms[i].code) IN
                     /\ j = 0 => Len(rooms[i].players) = 1
                     /\ j # 0 =>
                           /\ Len(rooms'[j].players) = Len(rooms[i].players) - 1
                           /\ \A m \in 1..Len(rooms'[j].players) :
                                 rooms'[j].players[m].id # s
                     /\ RejoinError(rooms', rooms[i].code, rooms[i].players[k].name) # ""
      ]_vars

\* C13: cast_vote changes nothing and emits nothing unless the room is in the
\* voting phase, the sender is a living player of it and the sender has no
\* vote recorded in the round, whatever the targetId of the recorded vote (Spec)
C13_VoteOnce ==
    [][\A s \in Clients, c \in Codes, t \in VoteTargets, r \in 0..(NumClients - 1) :
            LET i == RoomIndex(rooms, c)
                k == IF i = 0 THEN 0 ELSE FindById(rooms[i].players, s)
            IN  (/\ \/ i = 0
                    \/ rooms[i].gameState # "voting"
                    \/ k = 0
                    \/ rooms[i].players[k].isDead
                    \/ \E v \in 1..Len(rooms[i].votes) : rooms[i].votes[v].voter = s
                 /\ CastVote(s, c, t, r))
                  => (rooms' = rooms /\ emits' = <<>>)
      ]_vars

\* C14: a rejected operation leaves every room as it was: a join_room turned
\* down because the room is not found, not in the lobby, full or holds the
\* name, a rejoin_room that finds no player of that name, and a start_game,
\* start_voting or reset_game from a connection that is not the host; an error
\* message goes to the sender alone (SpecUnion).  Whatever they decide,
\* join_room begins and rejoin_room ends with a message to the sender.
C14_RejectedChangesNothing ==
    [][\A s \in UnionClients :
         LET errorToSender ==
                /\ Len(emits') = 1
                /\ emits'[1].ev = "error_message"
                /\ emits'[1].toSocket = s
                /\ emits'[1].toRoom = <<>>
             notHost(c) ==
                /\ RoomIndex(rooms, c) # 0
                /\ rooms[RoomIndex(rooms, c)].host # s
         IN
         /\ (emits' # <<>> /\ s \in {emits'[1].toSocket, emits'[Len(emits')].toSocket}) =>
              /\ \A c \in RawCodes, n \in UnionNames(s) :
                    LET i == RoomIndex(rooms, toUpperCase(c)) IN
                    (/\ c # <<>>
                     /\ sanitizeInput(n) # <<>>
                     /\ \/ i = 0
                        \/ rooms[i].gameState # "lobby"
                        \/ Len(rooms[i].players) >= MaxPlayers
                        \/ \E j \in 1..Len(rooms[i].players) :
                              toLowerCase(rooms[i].players[j].name)
                                 = toLowerCase(sanitizeInput(n))
                     /\ JoinRoom(s, c, n))
                      => (rooms' = rooms /\ errorToSender)
              /\ \A c \in RawCodes, n \in UnionRejoinNames :
                    LET i == RoomIndex(rooms, sanitizeInput(c)) IN
                    (/\ i # 0
                     /\ \A j \in 1..Len(rooms[i].players) :
                           rooms[i].players[j].name # sanitizeInput(n)
                     /\ RejoinRoom(s, c, n))
                      => (rooms' = rooms /\ disconnectTimers' = disconnectTimers
                            /\ errorToSender)
         /\ \A c \in FirstCodes(MaxRooms) :
               /\ (notHost(c) /\ StartGame(s, c, ValidWord, 0, 0))
                     => (rooms' = rooms /\ emits' = <<>>)
               /\ (notHost(c) /\ StartVoting(s, c)) => (rooms' = rooms /\ emits' = <<>>)
               /\ (notHost(c) /\ ResetGame(s, c)) => (rooms' = rooms /\ emits' = <<>>)
      ]_vars

\* during a vote a client outside the room was refused, and the room, with
\* its eleven players, is still voting
W_C14_RefusedDuringVote ==
    /\ emits = <<ErrorMessage(MaxPlayers + 1, "La partida ya empezo.")>>
    /\ \E i \in 1..Len(rooms) :
          /\ rooms[i].gameState = "voting"
          /\ Len(rooms[i].players) = MaxPlayers - 1

\* C15: in a room in the lobby every player has isDead false and no roleData
\* (Spec)
C15_LobbyIsClean ==
    \A i \in 1..Len(rooms) :
        rooms[i].gameState = "lobby" =>
            \A k \in 1..Len(rooms[i].players) :
                /\ ~rooms[i].players[k].isDead
                /\ rooms[i].players[k].roleData = NoRole

\* C16: a room is created in the lobby, and its phase changes only from lobby
\* to playing with a game start, from playing to voting with the opening of a
\* vote, and from voting to playing or to lobby with a resolution, to lobby
\* exactly on a win (Spec)
C16_PhaseChanges ==
    [][LET sent(ev) == \E m \in 1..Len(emits') : emits'[m].ev = ev IN
       \A j \in 1..Len(rooms') :
          LET i == RoomIndex(rooms, rooms'[j].code)
              to == rooms'[j].gameState
          IN  IF i = 0
              THEN to = "lobby"
              ELSE LET from == rooms[i].gameState IN
                   from # to =>
                      \/ from = "lobby" /\ to = "playing" /\ sent("game_started")
                      \/ from = "playing" /\ to = "voting" /\ sent("voting_phase_started")
                      \/ from = "voting" /\ to = "playing" /\ sent("next_round")
                      \/ from = "voting" /\ to = "lobby" /\ sent("game_over")
      ]_vars

\* C17: a rejoin and the eviction of a seat exclude each other.  A
\* rejoin_room that finds the timer of the old connection pending removes it,
\* and no timer of that connection comes back, as a timer is created only
\* when an open connection closes.  A timer that fires changes no seat under
\* another id and moves the host only away from its own id; every player that
\* sat under its id is removed, and a rejoin_room under that player's name
\* then fails (SpecMembers).  rejoin_room ends with a message to its sender.
C17_RejoinOrEviction ==
    /\ [](\A s \in disconnectTimers : sock[s] = "closed")
    /\ [][\A s \in Members :
            /\ (s \in disconnectTimers' /\ s \notin disconnectTimers) => sock[s] = "open"
            /\ (Len(emits') = 2 /\ emits'[2].toSocket = s) =>
                 \A c \in FirstCodes(MaxRooms), n \in RejoinNames :
                    LET i == RoomIndex(rooms, sanitizeInput(c))
                        k == IF i = 0 THEN 0
                             ELSE FindByName(rooms[i].players, sanitizeInput(n))
                    IN  (/\ k # 0
                         /\ rooms[i].players[k].id \in disconnectTimers
                         /\ RejoinRoom(s, c, n))
                          => /\ rooms[i].players[k].id \notin disconnectTimers'
                             /\ rooms'[i].players[k].id = s
                             /\ sock[rooms[i].players[k].id] = "closed"
            /\ (s \in disconnectTimers /\ GraceTimerFire(s)) =>
                 /\ s \notin disconnectTimers'
                 /\ \A i \in 1..Len(rooms) :
                       LET j == RoomIndex(rooms', rooms[i].code)
                           before == rooms[i].players
                           others == SelectSeq(before, LAMBDA p : p.id # s)
                       IN  IF j = 0
                           THEN others = <<>>
                           ELSE /\ SelectSeq(rooms'[j].players, LAMBDA p : p.id # s) = others
                                /\ rooms'[j].host # rooms[i].host => rooms[i].host = s
                                /\ \A k \in 1..Len(before) :
                                      before[k].id = s =>
                                         /\ \A m \in 1..Len(rooms'[j].players) :
                                               rooms'[j].players[m].id # s
                                         /\ RejoinError(rooms', rooms[i].code,
                                                        before[k].name) # ""
         ]_vars

\* C18: the vote that completes a round resolves it on one target: one with
\* the highest count, and among those with the highest count the one that got
\* a vote first in the order the votes were recorded; when that target is a
\* player it is announced as eliminated and marked dead, and no other
\* player's isDead changes; when it is not, nobody is eliminated (Spec)
C18_TopTargetFirstVoted ==
    [][\A s \in Clients, c \in Codes, t \in VoteTargets, r \in 0..(NumClients - 1) :
          LET i == RoomIndex(rooms, c)
              before == rooms[i].players
              k == IF i = 0 THEN 0 ELSE FindById(before, s)
              old == rooms[i].votes
              mine == { v \in 1..Len(old) : old[v].voter = s }
              votes == IF mine = {}
                       THEN Append(old, [voter |-> s, target |-> t])
                       ELSE [v \in 1..Len(old) |->
                               IF v \in mine THEN [voter |-> s, target |-> t] ELSE old[v]]
              living == { j \in 1..Len(before) : ~before[j].isDead }
              count(x) == Cardinality({ v \in 1..Len(votes) : votes[v].target = x })
              first(x) == CHOOSE v \in 1..Len(votes) :
                             /\ votes[v].target = x
                             /\ \A w \in 1..(v - 1) : votes[w].target # x
              targets == { votes[v].target : v \in 1..Len(votes) }
              top == { x \in targets : \A u \in targets : count(x) >= count(u) }
              chosen == CHOOSE x \in top : \A u \in top : first(x) <= first(u)
              victim == FindById(before, chosen)
              announced == \E m \in 1..Len(emits') : emits'[m].ev = "player_eliminated"
          IN  (/\ i # 0
               /\ rooms[i].gameState = "voting"
               /\ k # 0
               /\ ~before[k].isDead
               /\ \A v \in mine : old[v].target = 0
               /\ Len(votes) >= Cardinality(living)
               /\ CastVote(s, c, t, r))
                => IF victim # 0
                   THEN /\ \A m \in 1..Len(emits') :
                              emits'[m].ev = "player_eliminated"
                                 => emits'[m].eliminatedId = chosen
                        /\ announced
                        /\ rooms'[i].gameState # "lobby" =>
                              \A j \in 1..Len(before) :
                                 rooms'[i].players[j].isDead = (before[j].isDead \/ j = victim)
                   ELSE /\ ~announced
                        /\ \A j \in 1..Len(before) :
                              rooms'[i].players[j].isDead = before[j].isDead
      ]_vars

\* C19: every player_eliminated event names a player that was in the roster
\* of the room with isDead false when the resolving vote arrived; a vote for
\* a dead player or for an identity outside the room eliminates nobody and
\* ends no game (SpecVote)
C19_VictimWasAlive ==
    [][\A m \in 1..Len(emits') :
          emits'[m].ev \in {"player_eliminated", "game_over"} =>
             \E i \in 1..Len(rooms) : \E k \in 1..Len(rooms[i].players) :
                /\ ~rooms[i].players[k].isDead
                /\ \E n \in 1..Len(emits') :
                      /\ emits'[n].ev = "player_eliminated"
                      /\ emits'[n].eliminatedId = rooms[i].players[k].id
      ]_vars

\* C20: a room that is not in phase voting has no recorded vote (Spec)
C20_NoVotesOutsideVoting ==
    \A i \in 1..Len(rooms) :
       rooms[i].gameState # "voting" => rooms[i].votes = <<>>

\* C21: the callback resetRoomToLobby schedules is safe whenever it fires:
\* the process stays up, and no room's phase, roster, host, votes or player
\* flags change, also when the room was deleted in the meantime (Spec)
C21_ResetCallbackSafe ==
    [][((\E i \in 1..MaxRooms : ResetTimerFire(i)) \/ OrphanTimerFire) =>
          /\ proc' = proc
          /\ Len(rooms') = Len(rooms)
          /\ \A i \in 1..Len(rooms) :
                [rooms'[i] EXCEPT !.resetTimers = 0] = [rooms[i] EXCEPT !.resetTimers = 0]
      ]_vars

\* C22: no accepted start_game leaves the server inside the impostor
\* selection loop: on every reachable roster and for every requested count
\* the loop can collect the number of distinct ids it waits for (SpecSeats)
C22_StartGameTerminates == proc # "hung"

\* C23: in every room the ids of the players are pairwise distinct
\* (SpecMembers)
C23_IdsDistinct ==
    \A i \in 1..Len(rooms) :
       \A j, k \in 1..Len(rooms[i].players) :
          rooms[i].players[j].id = rooms[i].players[k].id => j = k

\* C24: a room in phase playing or voting has a living player whose role is
\* impostor (Spec)
C24_LivingImpostor ==
    \A i \in 1..Len(rooms) :
       rooms[i].gameState \in {"playing", "voting"} =>
          \E k \in 1..Len(rooms[i].players) :
             /\ ~rooms[i].players[k].isDead
             /\ rooms[i].players[k].roleData.role = "impostor"

\* C25: in a room in phase playing or voting every player has a roleData
\* object, and no handler throws on a player's role: the only uncaught
\* exception is the one of the callback of a deleted room (SpecRoles)
C25_RolesAssigned ==
    /\ [](\A i \in 1..Len(rooms) :
            rooms[i].gameState \in {"playing", "voting"} =>
               \A k \in 1..Len(rooms[i].players) : ~RoleThrows(rooms[i].players[k]))
    /\ [][proc' = "crashed" /\ proc = "up" => orphanTimers' = orphanTimers - 1]_vars

\* a game started again, during the pause after a win, in a room of two where
\* a seat was taken over through rejoin_room
W_C25_NewGameAfterWin ==
    \E i \in 1..Len(rooms) :
       /\ rooms[i].gameState = "playing"
       /\ rooms[i].resetTimers > 0
       /\ Len(rooms[i].players) = 2
       /\ \E k \in 1..2, j \in Clients :
             /\ rooms[i].players[k].name = SeatName(j)
             /\ rooms[i].players[k].id # j
       /\ \A k \in 1..2 : rooms[i].players[k].roleData # NoRole

\* C26: when the departure of a connection becomes final (the disconnect
\* handler of index.js has run, or the grace timer of part_000 has fired), no
\* room has a player with its id and no room has it as host (SpecMembers)
C26_DepartureLeavesNothing ==
    [][\A s \in Members :
         (Disconnect(s) \/ GraceTimerFire(s)) =>
            \A i \in 1..Len(rooms') :
               /\ rooms'[i].host # s
               /\ \A k \in 1..Len(rooms'[i].players) : rooms'[i].players[k].id # s
      ]_vars

====
